---- MODULE Spec2Model ----
(***************************************************************************)
(* A model of the stock-market analysis backend:                           *)
(*   backend/time_frequency.py    calculate_time_frequency                 *)
(*   backend/main.py              calculate_mel_spectrogram,               *)
(*                                create_network, fetch_stock_set,         *)
(*                                analyze_stocks                           *)
(*   backend/technical_analysis.py  TechnicalAnalysis                      *)
(*                                                                         *)
(* Four specifications share the module, one per component:                *)
(*   SpecWindow   the windowing-parameter resolution and the transform     *)
(*   SpecGraph    create_network and the node/link listing                 *)
(*   SpecTA       the TechnicalAnalysis accumulator                        *)
(*   Spec         the analyze_stocks request handler                       *)
(*                                                                         *)
(* Arrays are sequences.  An optional value (Python's None or a value v)   *)
(* is the empty tuple or the one-element tuple <<v>>.  Floating-point      *)
(* multipliers and correlations are kept as exact rationals.               *)
(***************************************************************************)
EXTENDS Integers, Sequences, FiniteSets, TLC

VARIABLES
    \* a call of calculate_time_frequency / calculate_mel_spectrogram
    sa_call,      \* the arguments of the call
    sa_ret,       \* None, or Some(what the call returned or raised)
    \* a call of create_network and the listing of its graph
    mfccs,        \* the feature matrix [coefficient][frame], a sequence of rows
    threshold,    \* the correlation threshold, a rational <<num, den>>
    G,            \* the networkx Graph under construction
    loop_i,       \* the outer loop variable i
    loop_j,       \* the inner loop variable j
    gr_pc,        \* "loop", "list" or "done"
    nodes,        \* the reported node list
    links,        \* the reported link list
    \* a TechnicalAnalysis object and its caller
    ta_prices,    \* self.prices
    ta_indicators,\* self.indicators, a dict from indicator name to result
    ta_snapshot,  \* None, or Some(the dict get_indicators returned)
    ta_last,      \* the latest call: its method, arguments and outcome
    ta_history,   \* for each method, the arguments of its latest stored call
    ta_ncalls,    \* how many calls were made
    \* one request to analyze_stocks
    request,      \* the query parameters
    env,          \* what the data source and the signal processing yield
    pc,           \* "validate", "loop" or "done"
    symbols_list, \* the symbols to process
    idx,          \* the position in symbols_list of the next symbol
    results,      \* the dict from symbol to result bundle
    response,     \* None, or Some(what the caller receives)
    images,       \* the image files written
    fetched,      \* the symbols fetch_stock_data was called for
    outcomes      \* how each loop iteration ended

saVars == <<sa_call, sa_ret>>
grVars == <<mfccs, threshold, G, loop_i, loop_j, gr_pc, nodes, links>>
taVars == <<ta_prices, ta_indicators, ta_snapshot, ta_last, ta_history, ta_ncalls>>
orVars == <<request, env, pc, symbols_list, idx, results, response, images,
            fetched, outcomes>>
vars == <<saVars, grVars, taVars, orVars>>

None == <<>>
Some(v) == <<v>>
ValueOf(opt) == opt[1]

(***************************************************************************)
(* Bounds of the model.                                                    *)
(***************************************************************************)
\* multipliers are the rationals m / MultDen
MultDen == 4
\* largest multiplier numerator is MultDen + MaxMultExtra
MaxMultExtra == 5
\* window sizes 1 .. MaxWindow (and the default N_FFT) are tried
MaxWindow == 6
\* series lengths 1 .. MaxLen are tried by SpecWindow
MaxLen == 10
\* feature matrices of 0 .. MaxFrames frames are tried by SpecGraph
MaxFrames == 3
\* price series of 1 .. MaxTaLen points (and of DefaultsLen points) are tried by SpecTA
MaxTaLen == 5
\* a TechnicalAnalysis object receives at most MaxCalls calls
MaxCalls == 3
\* a series long enough for every default warm-up (33 for the oscillator)
DefaultsLen == 35
\* the symbols query string has at most MaxSymbolsLen characters
MaxSymbolsLen == 3
\* section_start ranges over 0 .. MaxStart
MaxStart == 1
\* the longest fetched series has N_FFT + LongExtra points
LongExtra == 144

(***************************************************************************)
(* Program constants.                                                      *)
(***************************************************************************)
\* n_fft=256, the default of both spectrogram functions
N_FFT == 256

Min(a, b) == IF a <= b THEN a ELSE b
Max(a, b) == IF a >= b THEN a ELSE b

(***************************************************************************)
(* Windowing-parameter resolution.                                         *)
(***************************************************************************)
\* int(n_fft * freq_resolution_multiplier), the multiplier being m / MultDen
AdjustedNFft(n_fft, m) == (n_fft * m) \div MultDen

\* hop_length after the default and the clamp ("Enforce hop_length constraints")
ResolveHopOffByOne(adjusted_n_fft, hop_length) ==
    LET h0 == IF hop_length = None THEN adjusted_n_fft \div 4 ELSE ValueOf(hop_length)
    IN  IF h0 <= 0 THEN 1
        ELSE IF h0 >= adjusted_n_fft THEN adjusted_n_fft
        ELSE h0

ResolveHopHalfDefault(adjusted_n_fft, hop_length) ==
    LET h0 == IF hop_length = None THEN adjusted_n_fft \div 2 ELSE ValueOf(hop_length)
    IN  IF h0 <= 0 THEN 1
        ELSE IF h0 >= adjusted_n_fft THEN adjusted_n_fft - 1
        ELSE h0

ResolveHop(adjusted_n_fft, hop_length) ==
    LET h0 == IF hop_length = None THEN adjusted_n_fft \div 4 ELSE ValueOf(hop_length)
    IN  IF h0 <= 0 THEN 1
        ELSE IF h0 >= adjusted_n_fft THEN adjusted_n_fft - 1
        ELSE h0

\* noverlap after the two guards that follow noverlap = n_fft - hop_length
ResolveOverlap(adjusted_n_fft, hop) ==
    LET n0 == adjusted_n_fft - hop
        n1 == IF n0 >= adjusted_n_fft THEN adjusted_n_fft \div 2 ELSE n0
    IN  IF n1 >= adjusted_n_fft THEN adjusted_n_fft - 1 ELSE n1

(***************************************************************************)
(* scipy.signal.stft(prices, nperseg, noverlap) with its defaults          *)
(* (window hann, boundary 'even', padded) on a non-empty input: a segment  *)
(* longer than the input is shortened to the input length (with a          *)
(* warning); noverlap >= nperseg then raises ValueError.  The result is    *)
(* described by its shape: bins x frames.                                  *)
(***************************************************************************)
StftFrames(len, nperseg, noverlap) ==
    LET nstep == nperseg - noverlap
        ext   == len + 2 * (nperseg \div 2)
        nadd  == ((-(ext - nperseg)) % nstep) % nperseg
    IN  ((ext + nadd) - noverlap) \div nstep

stft(len, nperseg, noverlap) ==
    LET seg == Min(nperseg, len)
    IN  IF noverlap >= seg
        THEN [raised |-> TRUE, nperseg |-> seg, bins |-> 0, frames |-> 0]
        ELSE [raised |-> FALSE, nperseg |-> seg,
              bins |-> seg \div 2 + 1,
              frames |-> StftFrames(len, seg, noverlap)]

\* calculate_time_frequency: the resolved parameters and the transform's outcome
calculate_time_frequency(prices, n_fft, hop_length, m) ==
    LET adjusted_n_fft == AdjustedNFft(n_fft, m)
        hop      == ResolveHop(adjusted_n_fft, hop_length)
        noverlap == ResolveOverlap(adjusted_n_fft, hop)
    IN  [adjusted_n_fft |-> adjusted_n_fft, noverlap |-> noverlap,
         out |-> stft(Len(prices), adjusted_n_fft, noverlap)]

\* calculate_mel_spectrogram: the same pipeline on n_fft itself
calculate_mel_spectrogram(prices, n_fft, hop_length) ==
    LET hop      == ResolveHop(n_fft, hop_length)
        noverlap == ResolveOverlap(n_fft, hop)
    IN  [adjusted_n_fft |-> n_fft, noverlap |-> noverlap,
         out |-> stft(Len(prices), n_fft, noverlap)]

(***************************************************************************)
(* create_network: the correlation graph over the columns of mfccs.        *)
(***************************************************************************)
\* the sum of a vector, by halves
RECURSIVE SumSeq(_)
SumSeq(xs) ==
    IF Len(xs) = 0 THEN 0
    ELSE IF Len(xs) = 1 THEN xs[1]
    ELSE LET half == Len(xs) \div 2
         IN  SumSeq(SubSeq(xs, 1, half)) + SumSeq(SubSeq(xs, half + 1, Len(xs)))

\* mfccs.shape[1]
NFrames(m) == IF m = <<>> THEN 0 ELSE Len(m[1])
\* mfccs[:, c] for the 0-based column c
Column(m, c) == [r \in 1..Len(m) |-> m[r][c + 1]]

(***************************************************************************)
(* scipy.stats.pearsonr(x, y)[0] for vectors of length >= 2: nan when an   *)
(* input is constant, else cov / sqrt(vx * vy), kept as the three          *)
(* integers n*Sxy - Sx*Sy, n*Sxx - Sx^2, n*Syy - Sy^2.                      *)
(***************************************************************************)
pearsonr(x, y) ==
    LET n  == Len(x)
        sx == SumSeq(x)
        sy == SumSeq(y)
        vx == n * SumSeq([k \in 1..n |-> x[k] * x[k]]) - sx * sx
        vy == n * SumSeq([k \in 1..n |-> y[k] * y[k]]) - sy * sy
    IN  IF vx = 0 \/ vy = 0
        THEN [nan |-> TRUE, cov |-> 0, vx |-> vx, vy |-> vy]
        ELSE [nan |-> FALSE,
              cov |-> n * SumSeq([k \in 1..n |-> x[k] * y[k]]) - sx * sy,
              vx |-> vx, vy |-> vy]

\* corr > t for the rational t = <<p, q>>, q > 0; a comparison with nan is False
CorrGreaterOrEqual(corr, t) ==
    LET p  == t[1]
        q  == t[2]
        lhs == q * q * corr.cov * corr.cov
        rhs == p * p * corr.vx * corr.vy
    IN  /\ ~corr.nan
        /\ IF p >= 0 THEN corr.cov >= 0 /\ lhs >= rhs
                     ELSE corr.cov >= 0 \/ lhs <= rhs

CorrGreater(corr, t) ==
    LET p  == t[1]
        q  == t[2]
        lhs == q * q * corr.cov * corr.cov
        rhs == p * p * corr.vx * corr.vy
    IN  /\ ~corr.nan
        /\ IF p >= 0 THEN corr.cov > 0 /\ lhs > rhs
                     ELSE corr.cov >= 0 \/ lhs < rhs

\* nx.Graph(): _node keeps the nodes in insertion order, _adj[n] the
\* neighbours of n with the edge weights, in insertion order
EmptyGraph == [_node |-> <<>>, _adj |-> <<>>]

NodeSet(g) == {g._node[k] : k \in 1..Len(g._node)}
NodeIndex(g, n) == CHOOSE k \in 1..Len(g._node) : g._node[k] = n
\* the adjacency list of node n
Adj(g, n) == g._adj[NodeIndex(g, n)]

\* G.add_node(n) as add_edge performs it: a new node gets an empty adjacency
AddNode(g, n) ==
    IF n \in NodeSet(g) THEN g
    ELSE [_node |-> Append(g._node, n), _adj |-> Append(g._adj, <<>>)]

\* adj[u][v] = weight: update in place, or append a new neighbour
SetNeighbour(nbrs, v, w) ==
    IF \E k \in 1..Len(nbrs) : nbrs[k].nbr = v
    THEN [k \in 1..Len(nbrs) |->
             IF nbrs[k].nbr = v THEN [nbr |-> v, weight |-> w] ELSE nbrs[k]]
    ELSE Append(nbrs, [nbr |-> v, weight |-> w])

\* G.add_edge(u, v, weight=w)
add_edge(g, u, v, w) ==
    LET g2 == AddNode(AddNode(g, u), v)
        iu == NodeIndex(g2, u)
        iv == NodeIndex(g2, v)
        a1 == [g2._adj EXCEPT ![iu] = SetNeighbour(@, v, w)]
        a2 == [a1 EXCEPT ![iv] = SetNeighbour(@, u, w)]
    IN  [_node |-> g2._node, _adj |-> a2]

\* one pass of the inner loop body for the pair (i, j)
CreateNetworkBody(g, m, t, i, j) ==
    LET corr == pearsonr(Column(m, i), Column(m, j))
    IN  IF CorrGreater(corr, t) THEN add_edge(g, i, j, corr) ELSE g

\* G.nodes(): the nodes in insertion order
GraphNodes(g) == g._node

\* G.edges(): for each node in order, its neighbours not yet visited as a node
RECURSIVE EdgesFrom(_, _)
EdgesFrom(g, k) ==
    IF k > Len(g._node) THEN <<>>
    ELSE LET seen == {g._node[h] : h \in 1..(k - 1)}
             mine == SelectSeq(g._adj[k], LAMBDA e : e.nbr \notin seen)
         IN  [h \in 1..Len(mine) |-> <<g._node[k], mine[h].nbr>>]
             \o EdgesFrom(g, k + 1)

GraphEdges(g) == EdgesFrom(g, 1)

\* G[u][v]['weight']
EdgeWeight(g, u, v) ==
    LET nbrs == Adj(g, u)
    IN  nbrs[CHOOSE k \in 1..Len(nbrs) : nbrs[k].nbr = v].weight

\* nodes = [{"id": n, "group": 1} for n in G.nodes()]
NodeList(g) ==
    [k \in 1..Len(GraphNodes(g)) |-> [id |-> GraphNodes(g)[k], group |-> 1]]

\* links = [{"source": u, "target": v, "value": G[u][v]['weight']} ...]
LinkList(g) ==
    LET es == GraphEdges(g)
    IN  [k \in 1..Len(es) |->
            [source |-> es[k][1], target |-> es[k][2],
             value |-> EdgeWeight(g, es[k][1], es[k][2])]]

(***************************************************************************)
(* TechnicalAnalysis.  An indicator array holds, per position, either the  *)
(* undefined value NaN or a defined value, described by the function that  *)
(* produced it, its parameters and the prices it was computed from: the    *)
(* positions of the first and the last of them and the latest price.       *)
(***************************************************************************)
NaN == [nan |-> TRUE, of |-> <<>>]
Defined(fn, params, inputs) == [nan |-> FALSE, of |-> <<fn, params, inputs>>]

\* a TA-Lib output array over prices: NaN for the first `lookback` positions
\* (all of them when the series is not longer), defined values after them,
\* each computed from the `span` latest prices (all earlier prices if span = 0)
TalibArray(fn, params, prices, lookback, span) ==
    [k \in 1..Len(prices) |->
        IF k <= lookback THEN NaN
        ELSE Defined(fn, params,
                     <<IF span = 0 THEN 1 ELSE k - span + 1, k, prices[k]>>)]

\* the output without its undefined head, as a 'valid'-mode moving window gives
SMA_valid(prices, timeperiod) ==
    [k \in 1..Max(0, Len(prices) - (timeperiod - 1)) |->
        Defined("SMA", <<timeperiod>>,
                <<k, k + timeperiod - 1, prices[k + timeperiod - 1]>>)]

\* talib.SMA(prices, timeperiod): lookback timeperiod - 1
SMA(prices, timeperiod) ==
    TalibArray("SMA", <<timeperiod>>, prices, timeperiod - 1, timeperiod)

\* talib.RSI(prices, timeperiod): Wilder smoothing, lookback timeperiod
RSI(prices, timeperiod) ==
    TalibArray("RSI", <<timeperiod>>, prices, timeperiod, 0)

\* talib.MACD(prices, fastperiod, slowperiod, signalperiod): three arrays with
\* the lookback of the slow EMA plus that of the signal EMA (the periods are
\* swapped when slow < fast)
MACD(prices, fastperiod, slowperiod, signalperiod) ==
    LET lookback == (Max(fastperiod, slowperiod) - 1) + (signalperiod - 1)
        params   == <<fastperiod, slowperiod, signalperiod>>
    IN  <<TalibArray("MACD.macd", params, prices, lookback, 0),
          TalibArray("MACD.macdsignal", params, prices, lookback, 0),
          TalibArray("MACD.macdhist", params, prices, lookback, 0)>>

\* talib.BBANDS(prices, timeperiod, nbdevup, nbdevdn, matype) for matype 0
\* (SMA): three arrays with lookback timeperiod - 1
BBANDS(prices, timeperiod, nbdevup, nbdevdn, matype) ==
    LET params == <<timeperiod, nbdevup, nbdevdn, matype>>
    IN  <<TalibArray("BBANDS.upperband", params, prices, timeperiod - 1, timeperiod),
          TalibArray("BBANDS.middleband", params, prices, timeperiod - 1, timeperiod),
          TalibArray("BBANDS.lowerband", params, prices, timeperiod - 1, timeperiod)>>

\* TA-Lib rejects a period outside its range (from 2, the MACD signal period
\* from 1) with an exception (TA_BAD_PARAM)
TalibBadParam(method, args) ==
    CASE method = "calculate_moving_average" -> args[1] < 2
      [] method = "calculate_rsi" -> args[1] < 2
      [] method = "calculate_macd" -> args[1] < 2 \/ args[2] < 2 \/ args[3] < 1
      [] method = "calculate_bollinger_bands" -> args[1] < 2

\* self.indicators[key] = value
EmptyDict == [k \in {} |-> k]
Put(dict, key, value) ==
    [k \in (DOMAIN dict) \cup {key} |-> IF k = key THEN value ELSE dict[k]]

\* the dict after calculate_moving_average(timeperiod)
calculate_moving_average(indicators, prices, timeperiod) ==
    Put(indicators, "sma", SMA(prices, timeperiod))

calculate_rsi_wrong_key(indicators, prices, timeperiod) ==
    Put(indicators, "sma", RSI(prices, timeperiod))

\* the dict after calculate_rsi(timeperiod)
calculate_rsi(indicators, prices, timeperiod) ==
    Put(indicators, "rsi", RSI(prices, timeperiod))

\* the dict after calculate_macd(fastperiod, slowperiod, signalperiod)
calculate_macd(indicators, prices, fastperiod, slowperiod, signalperiod) ==
    LET out == MACD(prices, fastperiod, slowperiod, signalperiod)
    IN  Put(indicators, "macd",
            [macd |-> out[1], macdsignal |-> out[2], macdhist |-> out[3]])

\* the dict after calculate_bollinger_bands(timeperiod, nbdevup, nbdevdn, matype)
calculate_bollinger_bands(indicators, prices, timeperiod, nbdevup, nbdevdn, matype) ==
    LET out == BBANDS(prices, timeperiod, nbdevup, nbdevdn, matype)
    IN  Put(indicators, "bollinger_bands",
            [upperband |-> out[1], middleband |-> out[2], lowerband |-> out[3]])

\* the default arguments of the four methods
DefaultArgs(method) ==
    CASE method = "calculate_moving_average" -> <<20>>
      [] method = "calculate_rsi" -> <<14>>
      [] method = "calculate_macd" -> <<12, 26, 9>>
      [] method = "calculate_bollinger_bands" -> <<20, 2, 2, 0>>

\* the dict after method(*args)
Calculate(indicators, prices, method, args) ==
    CASE method = "calculate_moving_average" ->
            calculate_moving_average(indicators, prices, args[1])
      [] method = "calculate_rsi" ->
            calculate_rsi(indicators, prices, args[1])
      [] method = "calculate_macd" ->
            calculate_macd(indicators, prices, args[1], args[2], args[3])
      [] method = "calculate_bollinger_bands" ->
            calculate_bollinger_bands(indicators, prices, args[1], args[2],
                                      args[3], args[4])

(***************************************************************************)
(* analyze_stocks: the request, its validation and the per-symbol          *)
(* pipeline.  A query string is a sequence of characters; a symbol is the  *)
(* string its characters spell.                                            *)
(***************************************************************************)
\* n_mfcc=13 of extract_mfccs
N_MFCC == 13

\* threshold=0.7 of create_network
DefaultThreshold == <<7, 10>>

\* str.upper() and str.lower() on the letters the requests use
UpperChar(c) ==
    CASE c = "a" -> "A"
      [] c = "b" -> "B"
      [] OTHER -> c

LowerChar(c) ==
    CASE c = "D" -> "d"
      [] c = "O" -> "o"
      [] c = "W" -> "w"
      [] OTHER -> c

Upper(cs) == [k \in 1..Len(cs) |-> UpperChar(cs[k])]
Lower(cs) == [k \in 1..Len(cs) |-> LowerChar(cs[k])]

\* the string a sequence of characters spells
RECURSIVE Spell(_)
Spell(cs) == IF cs = <<>> THEN "" ELSE Head(cs) \o Spell(Tail(cs))

\* str.strip(): leading and trailing blanks removed
RECURSIVE LStrip(_)
LStrip(cs) == IF cs # <<>> /\ Head(cs) = " " THEN LStrip(Tail(cs)) ELSE cs

RECURSIVE RStrip(_)
RStrip(cs) ==
    IF cs # <<>> /\ cs[Len(cs)] = " " THEN RStrip(SubSeq(cs, 1, Len(cs) - 1)) ELSE cs

Strip(cs) == RStrip(LStrip(cs))

\* str.split(','): the pieces between the commas, empty pieces included
RECURSIVE SplitFrom(_, _)
SplitFrom(cs, piece) ==
    IF cs = <<>> THEN <<piece>>
    ELSE IF Head(cs) = "," THEN <<piece>> \o SplitFrom(Tail(cs), <<>>)
    ELSE SplitFrom(Tail(cs), Append(piece, Head(cs)))

Split(cs) == SplitFrom(cs, <<>>)

\* [symbol.strip().upper() for symbol in symbols.split(',') if symbol.strip()]
ParseSymbols(cs) ==
    LET pieces == SelectSeq(Split(cs), LAMBDA piece : Strip(piece) # <<>>)
    IN  [k \in 1..Len(pieces) |-> Spell(Upper(Strip(pieces[k])))]

\* fetch_stock_set: the three predefined lists (None stands for the ValueError)
fetch_stock_set(set_name) ==
    LET name == Spell(Lower(set_name))
    IN  IF name = "sp500"
        THEN Some(<<"AAPL", "MSFT", "GOOGL", "AMZN", "FB", "BRK.B", "JPM", "JNJ",
                    "V", "PG", "UNH", "DIS", "NVDA", "HD", "MA">>)
        ELSE IF name = "dow"
        THEN Some(<<"AAPL", "MSFT", "JNJ", "V", "PG",
                    "UNH", "DIS", "HD", "MA", "IBM">>)
        ELSE IF name = "nasdaq100"
        THEN Some(<<"AAPL", "MSFT", "AMZN", "FB", "GOOGL",
                    "GOOG", "INTC", "CSCO", "CMCSA", "ADBE">>)
        ELSE None

\* prices[section_start:section_end] for bounds >= 0
Slice(prices, section_start, section_end) ==
    SubSeq(prices, Min(section_start, Len(prices)) + 1,
                   Min(section_end, Len(prices)))

\* the selection of analyze_stocks
SelectPrices(prices, section_start, section_end) ==
    IF section_end # None
    THEN Slice(prices, section_start, ValueOf(section_end))
    ELSE prices

\* the standardized feature matrix, N_MFCC coefficients by `frames` columns.
\* Its values depend on the prices through the transform, the cepstral
\* features and the scaler; the model takes them from the kind of signal:
\* "flat" makes every column constant, "alike" makes all columns equal,
\* "lonely" sets the first column against all the others
FeatureColumn(signal, c) ==
    [r \in 1..N_MFCC |->
        CASE signal = "flat" -> 1
          [] signal = "alike" -> IF r = 1 THEN 1 ELSE IF r = 2 THEN -1 ELSE 0
          [] signal = "lonely" ->
                IF c = 1
                THEN (IF r = 1 THEN -1 ELSE IF r = 2 THEN 1 ELSE 0)
                ELSE (IF r = 1 THEN 1 ELSE IF r = 2 THEN -1 ELSE 0)]

NormalizedFeatures(signal, frames) ==
    [r \in 1..N_MFCC |-> [c \in 1..frames |-> FeatureColumn(signal, c)[r]]]

\* extract_mfccs(spectrogram): a matrix of N_MFCC rows and one column per frame
\* of the spectrogram, described by what it was computed from
extract_mfccs(spectrogram, prices) ==
    [rows |-> N_MFCC, columns |-> spectrogram.out.frames,
     nperseg |-> spectrogram.out.nperseg, of |-> prices]

\* for i in range(n): for j in range(i + 1, n): the pairs in the order visited
LoopPairs(n) ==
    LET pairs   == {p \in (0..(n - 1)) \X (0..(n - 1)) : p[1] < p[2]}
        rank(p) == p[1] * n - (p[1] * (p[1] + 1)) \div 2 + (p[2] - p[1] - 1)
    IN  [k \in 1..((n * (n - 1)) \div 2) |-> CHOOSE p \in pairs : rank(p) = k - 1]

\* create_network run to its end.  The pairs above the threshold get their
\* edge in loop order, each pair once; add_edge inserts a node when an edge
\* first names it (u before v) and appends each end to the other's adjacency
create_network(m, t) ==
    LET corr(p)  == pearsonr(Column(m, p[1]), Column(m, p[2]))
        added    == SelectSeq(LoopPairs(NFrames(m)), LAMBDA p : CorrGreater(corr(p), t))
        ends     == [k \in 1..(2 * Len(added)) |-> added[(k + 1) \div 2][2 - (k % 2)]]
        firsts   == SelectSeq([k \in 1..Len(ends) |-> k],
                              LAMBDA k : \A h \in 1..(k - 1) : ends[h] # ends[k])
        node     == [k \in 1..Len(firsts) |-> ends[firsts[k]]]
        nbrs(u)  == LET mine == SelectSeq(added, LAMBDA p : u = p[1] \/ u = p[2])
                    IN  [k \in 1..Len(mine) |->
                            [nbr |-> IF mine[k][1] = u THEN mine[k][2] ELSE mine[k][1],
                             weight |-> corr(mine[k])]]
    IN  [_node |-> node, _adj |-> [k \in 1..Len(node) |-> nbrs(node[k])]]

\* the four default indicator calls on a fresh TechnicalAnalysis(prices)
AllIndicators(prices) ==
    LET d1 == Calculate(EmptyDict, prices, "calculate_moving_average",
                        DefaultArgs("calculate_moving_average"))
        d2 == Calculate(d1, prices, "calculate_rsi", DefaultArgs("calculate_rsi"))
        d3 == Calculate(d2, prices, "calculate_macd", DefaultArgs("calculate_macd"))
    IN  Calculate(d3, prices, "calculate_bollinger_bands",
                  DefaultArgs("calculate_bollinger_bands"))

\* the names of the images of one symbol (the timestamp in them is left out)
ImageName(symbol, kind) == <<symbol, kind, 0>>
TimeFrequencyImageName(symbol, m) == <<symbol, "time_frequency", m>>

\* results[symbol]
ResultBundle(symbol, g, selected_prices, features, indicators, req) ==
    [nodes |-> NodeList(g),
     links |-> LinkList(g),
     time_series_image |-> ImageName(symbol, "time_series"),
     spectrogram_image |-> ImageName(symbol, "spectrogram"),
     mfccs_image |-> ImageName(symbol, "mfccs"),
     time_frequency_image |->
         TimeFrequencyImageName(symbol, req.freq_resolution_multiplier),
     prices |-> selected_prices,
     mfccs |-> features,
     section_start |-> req.section_start,
     section_end |-> req.section_end,
     indicators |->
         [sma |-> indicators["sma"],
          rsi |-> indicators["rsi"],
          macd |-> indicators["macd"],
          bollinger_bands |-> indicators["bollinger_bands"]]]

(***************************************************************************)
(* The state of each component while another component's specification    *)
(* runs, and the price arrays the specifications draw from.                *)
(***************************************************************************)
\* a price array of length n; its values are the positions 0 .. n-1
PriceSeq(n) == [i \in 1..n |-> i - 1]

IdleWindow ==
    /\ sa_call = [fn |-> "none"]
    /\ sa_ret = None

IdleGraph ==
    /\ mfccs = <<>>
    /\ threshold = <<7, 10>>
    /\ G = EmptyGraph
    /\ loop_i = 0
    /\ loop_j = 0
    /\ gr_pc = "idle"
    /\ nodes = <<>>
    /\ links = <<>>

NoCall == [method |-> "none", args |-> <<>>, raised |-> FALSE]

IdleTA ==
    /\ ta_prices = <<>>
    /\ ta_indicators = EmptyDict
    /\ ta_snapshot = None
    /\ ta_last = NoCall
    /\ ta_history = EmptyDict
    /\ ta_ncalls = 0

NoRequest ==
    [symbols |-> None, stock_set |-> None, freq_resolution_multiplier |-> MultDen,
     section_start |-> 0, section_end |-> None]

\* what fetch_stock_data yields: an exception, or a series of n closing prices
FetchRaises == [raised |-> TRUE, n |-> 0]
FetchReturns(n) == [raised |-> FALSE, n |-> n]

IdleOrch ==
    /\ request = NoRequest
    /\ env = [A |-> FetchRaises, B |-> FetchRaises, listed |-> FetchRaises,
              signal |-> "flat"]
    /\ pc = "idle"
    /\ symbols_list = <<>>
    /\ idx = 0
    /\ results = EmptyDict
    /\ response = None
    /\ images = {}
    /\ fetched = <<>>
    /\ outcomes = <<>>

(***************************************************************************)
(* SpecWindow: one call of a spectrogram function on inputs drawn from     *)
(* the bounded sets below.                                                 *)
(***************************************************************************)
WindowSizes == (1..MaxWindow) \cup {N_FFT}
HopLengths == {None} \cup {Some(h) : h \in ((-1)..(MaxWindow + 1)) \cup {N_FFT}}
Multipliers == MultDen..(MultDen + MaxMultExtra)

SpectrogramCalls ==
    [fn : {"calculate_time_frequency"}, prices : {PriceSeq(n) : n \in 1..MaxLen},
     n_fft : WindowSizes, hop_length : HopLengths, m : Multipliers]
    \cup
    [fn : {"calculate_mel_spectrogram"}, prices : {PriceSeq(n) : n \in 1..MaxLen},
     n_fft : WindowSizes, hop_length : HopLengths, m : {MultDen}]

InitWindow ==
    /\ sa_call \in SpectrogramCalls
    /\ sa_ret = None
    /\ IdleGraph
    /\ IdleTA
    /\ IdleOrch

CallTimeFrequency ==
    /\ sa_ret = None
    /\ sa_call.fn = "calculate_time_frequency"
    /\ sa_ret' = Some(calculate_time_frequency(sa_call.prices, sa_call.n_fft,
                                                sa_call.hop_length, sa_call.m))
    /\ UNCHANGED <<sa_call, grVars, taVars, orVars>>

CallMelSpectrogram ==
    /\ sa_ret = None
    /\ sa_call.fn = "calculate_mel_spectrogram"
    /\ sa_ret' = Some(calculate_mel_spectrogram(sa_call.prices, sa_call.n_fft,
                                                 sa_call.hop_length))
    /\ UNCHANGED <<sa_call, grVars, taVars, orVars>>

NextWindow == CallTimeFrequency \/ CallMelSpectrogram

SpecWindow == InitWindow /\ [][NextWindow]_vars

(***************************************************************************)
(* Claims about the spectrogram functions, checked under SpecWindow.       *)
(***************************************************************************)
Returned == sa_ret # None
\* floor(window_size * resolution_multiplier) of the call
AdjustedWindow == (sa_call.n_fft * sa_call.m) \div MultDen
Overlap == ValueOf(sa_ret).noverlap
Raised == ValueOf(sa_ret).out.raised
SeriesLength == Len(sa_call.prices)

\* C1 as stated: after the resolution, 0 < overlap < adjusted_window for every
\* window_size >= 1, every hop_size and every resolution_multiplier >= 1.
C1_OverlapStrictlyInside ==
    Returned => (0 < Overlap /\ Overlap < AdjustedWindow)

\* C1 amended: 0 <= overlap < adjusted_window always, and 0 < overlap whenever
\* adjusted_window >= 2; an adjusted window of 1 resolves to overlap 0.
C1_OverlapInRange ==
    Returned =>
        /\ 0 <= Overlap
        /\ Overlap < AdjustedWindow
        /\ (AdjustedWindow >= 2 => 0 < Overlap)
        /\ (AdjustedWindow = 1 => Overlap = 0)

\* an oversized hop was clamped on a window enlarged by the multiplier
C1_Witness ==
    /\ Returned
    /\ sa_call.hop_length # None
    /\ ValueOf(sa_call.hop_length) >= AdjustedWindow
    /\ sa_call.m > MultDen
    /\ AdjustedWindow >= 2
    /\ Overlap = 1

\* C4 as stated: every series shorter than adjusted_window makes the spectrogram
\* computation raise instead of returning a spectrogram.
C4_ShortSeriesRaises ==
    (Returned /\ SeriesLength < AdjustedWindow) => Raised

\* C4 amended: a non-empty series raises exactly when its length is at most the
\* resolved overlap (with the default hop: adjusted_window - max(1,
\* adjusted_window \div 4)); in particular length 10 with window_size 256 and the
\* default hop raises.  A series longer than the overlap and shorter than the
\* window returns a spectrogram whose window is the series length.
C4_RaisesIffWithinOverlap ==
    Returned =>
        /\ (Raised <=> SeriesLength <= Overlap)
        /\ (sa_call.hop_length = None =>
               (Raised <=> SeriesLength <= AdjustedWindow
                                           - Max(1, AdjustedWindow \div 4)))
        /\ (~Raised /\ SeriesLength < AdjustedWindow =>
               ValueOf(sa_ret).out.nperseg = SeriesLength)

\* the scenario: length 10, window_size 256, default hop, multiplier 1
C4_Witness ==
    /\ Returned
    /\ SeriesLength = 10
    /\ sa_call.n_fft = N_FFT
    /\ sa_call.hop_length = None
    /\ sa_call.m = MultDen
    /\ Raised

(***************************************************************************)
(* SpecGraph: create_network run pair by pair on a feature matrix drawn    *)
(* from the bounded set below, then the listing of analyze_stocks.         *)
(***************************************************************************)
\* the default threshold 0.7 and two others
Thresholds == {<<7, 10>>, <<1, 2>>, <<-1, 2>>}

\* candidate frame columns (three coefficients each): a constant column, and
\* columns whose pairwise correlations are 1, -1, 1/2, -1/2 and 9/sqrt(84)
FrameColumns ==
    {<<1, 1, 1>>, <<1, 0, -1>>, <<1, -1, 0>>, <<-1, 0, 1>>, <<2, 0, -1>>}

\* the matrix whose columns are cols
MatrixOf(cols) == [r \in 1..3 |-> [c \in 1..Len(cols) |-> cols[c][r]]]

FeatureMatrices ==
    {MatrixOf(cols) : cols \in UNION {[1..t -> FrameColumns] : t \in 0..MaxFrames}}

\* where the loops stand after the pair (i, j): the next pair, or the end
NextPair(n, i, j) ==
    IF j + 1 < n THEN <<i, j + 1>>
    ELSE IF i + 2 < n THEN <<i + 1, i + 2>>
    ELSE <<n, n>>

InitGraph ==
    /\ mfccs \in FeatureMatrices
    /\ threshold \in Thresholds
    /\ G = EmptyGraph
    /\ loop_i = IF NFrames(mfccs) >= 2 THEN 0 ELSE NFrames(mfccs)
    /\ loop_j = IF NFrames(mfccs) >= 2 THEN 1 ELSE NFrames(mfccs)
    /\ gr_pc = "loop"
    /\ nodes = <<>>
    /\ links = <<>>
    /\ IdleWindow
    /\ IdleTA
    /\ IdleOrch

\* one iteration of the inner loop of create_network
CreateNetworkStep ==
    /\ gr_pc = "loop"
    /\ loop_i < NFrames(mfccs)
    /\ G' = CreateNetworkBody(G, mfccs, threshold, loop_i, loop_j)
    /\ loop_i' = NextPair(NFrames(mfccs), loop_i, loop_j)[1]
    /\ loop_j' = NextPair(NFrames(mfccs), loop_i, loop_j)[2]
    /\ UNCHANGED <<mfccs, threshold, gr_pc, nodes, links, saVars, taVars, orVars>>

\* return G
CreateNetworkReturn ==
    /\ gr_pc = "loop"
    /\ loop_i >= NFrames(mfccs)
    /\ gr_pc' = "list"
    /\ UNCHANGED <<mfccs, threshold, G, loop_i, loop_j, nodes, links, saVars, taVars, orVars>>

\* the conversion of the network to its JSON-serializable form
ListGraph ==
    /\ gr_pc = "list"
    /\ nodes' = NodeList(G)
    /\ links' = LinkList(G)
    /\ gr_pc' = "done"
    /\ UNCHANGED <<mfccs, threshold, G, loop_i, loop_j, saVars, taVars, orVars>>

NextGraph == CreateNetworkStep \/ CreateNetworkReturn \/ ListGraph

SpecGraph == InitGraph /\ [][NextGraph]_vars

(***************************************************************************)
(* Claims about create_network, checked under SpecGraph.                   *)
(***************************************************************************)
FrameCount == NFrames(mfccs)
Frames == 0..(FrameCount - 1)
GraphBuilt == gr_pc \in {"list", "done"}

\* C2 as stated: the node set of the produced graph, and the node list reported
\* for it, are exactly {0 .. T-1}, whatever the threshold and the edges.
C2_AllFramesAreNodes ==
    /\ GraphBuilt => NodeSet(G) = Frames
    /\ gr_pc = "done" =>
          /\ Len(nodes) = FrameCount
          /\ {nodes[k].id : k \in 1..Len(nodes)} = Frames

\* the centred sums of the Pearson coefficient, scaled by n^2:
\* sum (n*x_k - Sx) * (n*y_k - Sy)
CentredSum(x, y) ==
    LET n == Len(x)
    IN  SumSeq([k \in 1..n |-> (n * x[k] - SumSeq(x)) * (n * y[k] - SumSeq(y))])

\* Pearson(x, y) > p/q, from the definition cov / (sd_x * sd_y)
PearsonAbove(x, y, t) ==
    LET c  == CentredSum(x, y)
        vx == CentredSum(x, x)
        vy == CentredSum(y, y)
    IN  /\ vx > 0
        /\ vy > 0
        /\ \/ (c >= 0 /\ t[1] < 0)
           \/ (c > 0 /\ t[2] * t[2] * c * c > t[1] * t[1] * vx * vy)
           \/ (c < 0 /\ t[1] < 0 /\ t[2] * t[2] * c * c < t[1] * t[1] * vx * vy)

\* the neighbours recorded for node n (none when n is no node)
Neighbours(g, n) ==
    IF n \in NodeSet(g)
    THEN {Adj(g, n)[k].nbr : k \in 1..Len(Adj(g, n))}
    ELSE {}

\* the pairs (i, j) already visited by the loops
Visited(i, j) ==
    \/ gr_pc # "loop"
    \/ i < loop_i
    \/ (i = loop_i /\ j < loop_j)

\* C5: an edge (i, j), i < j, is present iff the Pearson correlation of columns
\* i and j is strictly greater than the threshold; its weight is that
\* correlation; there is no self-loop, and an unordered pair has at most one
\* edge, in the graph and in the reported links.
C5_EdgeIffCorrAboveThreshold ==
    /\ \A i \in Frames : \A j \in Frames :
          i < j =>
             /\ (j \in Neighbours(G, i)) <=>
                   (Visited(i, j) /\ PearsonAbove(Column(mfccs, i),
                                                  Column(mfccs, j), threshold))
             /\ (j \in Neighbours(G, i)) <=> (i \in Neighbours(G, j))
             /\ j \in Neighbours(G, i) =>
                   LET w == EdgeWeight(G, i, j)
                       n == Len(mfccs)
                   IN  /\ w = EdgeWeight(G, j, i)
                       /\ ~w.nan
                       /\ n * w.cov = CentredSum(Column(mfccs, i), Column(mfccs, j))
                       /\ n * w.vx = CentredSum(Column(mfccs, i), Column(mfccs, i))
                       /\ n * w.vy = CentredSum(Column(mfccs, j), Column(mfccs, j))
    /\ \A n \in NodeSet(G) :
          /\ n \notin Neighbours(G, n)
          /\ Neighbours(G, n) \subseteq Frames
          /\ Cardinality(Neighbours(G, n)) = Len(Adj(G, n))
    /\ gr_pc = "done" =>
          /\ \A k \in 1..Len(links) : \A h \in 1..Len(links) :
                {links[k].source, links[k].target}
                    = {links[h].source, links[h].target} => k = h
          /\ {{links[k].source, links[k].target} : k \in 1..Len(links)}
                = {{p[1], p[2]} :
                     p \in {q \in Frames \X Frames :
                              /\ q[1] < q[2]
                              /\ PearsonAbove(Column(mfccs, q[1]),
                                              Column(mfccs, q[2]), threshold)}}
          /\ \A k \in 1..Len(links) :
                links[k].value = EdgeWeight(G, links[k].source, links[k].target)

\* three frames at threshold 1/2: one pair correlates exactly 1/2 and gets no
\* edge, another pair correlates above it and is reported
C5_Witness ==
    /\ gr_pc = "done"
    /\ FrameCount = 3
    /\ threshold = <<1, 2>>
    /\ \E i \in Frames : \E j \in Frames :
          /\ i < j
          /\ j \notin Neighbours(G, i)
          /\ LET c == pearsonr(Column(mfccs, i), Column(mfccs, j))
             IN  ~c.nan /\ c.cov > 0 /\ 4 * c.cov * c.cov = c.vx * c.vy
    /\ Len(links) >= 1

(***************************************************************************)
(* SpecTA: one TechnicalAnalysis object, called at most MaxCalls times in  *)
(* any order with arguments from the sets below.                           *)
(***************************************************************************)
Methods == {"calculate_moving_average", "calculate_rsi", "calculate_macd",
            "calculate_bollinger_bands"}

\* the defaults, short periods that small series outlast, and a bad period
ArgChoices(method) ==
    {DefaultArgs(method)} \cup
    CASE method = "calculate_moving_average" -> {<<1>>, <<3>>}
      [] method = "calculate_rsi" -> {<<1>>, <<2>>}
      [] method = "calculate_macd" -> {<<2, 3, 2>>, <<3, 2, 1>>}
      [] method = "calculate_bollinger_bands" -> {<<2, 2, 2, 0>>}

TaSeriesLengths == (1..MaxTaLen) \cup {DefaultsLen}

\* TechnicalAnalysis(prices)
InitTA ==
    /\ ta_prices \in {PriceSeq(n) : n \in TaSeriesLengths}
    /\ ta_indicators = EmptyDict
    /\ ta_snapshot = None
    /\ ta_last = NoCall
    /\ ta_history = EmptyDict
    /\ ta_ncalls = 0
    /\ IdleWindow
    /\ IdleGraph
    /\ IdleOrch

\* a call that stores its result; the dict get_indicators returned is the
\* same object, so it shows the new entry as well
CallStores(method, args) ==
    /\ ta_ncalls < MaxCalls
    /\ ~TalibBadParam(method, args)
    /\ ta_indicators' = Calculate(ta_indicators, ta_prices, method, args)
    /\ ta_snapshot' = IF ta_snapshot = None THEN None ELSE Some(ta_indicators')
    /\ ta_last' = [method |-> method, args |-> args, raised |-> FALSE]
    /\ ta_history' = Put(ta_history, method, args)
    /\ ta_ncalls' = ta_ncalls + 1
    /\ UNCHANGED <<ta_prices, saVars, grVars, orVars>>

\* a call TA-Lib rejects: the exception leaves the object as it was
CallRaises(method, args) ==
    /\ ta_ncalls < MaxCalls
    /\ TalibBadParam(method, args)
    /\ ta_last' = [method |-> method, args |-> args, raised |-> TRUE]
    /\ ta_ncalls' = ta_ncalls + 1
    /\ UNCHANGED <<ta_prices, ta_indicators, ta_snapshot, ta_history, saVars, grVars, orVars>>

CalculateMovingAverage ==
    \E args \in ArgChoices("calculate_moving_average") :
        \/ CallStores("calculate_moving_average", args)
        \/ CallRaises("calculate_moving_average", args)

CalculateRsi ==
    \E args \in ArgChoices("calculate_rsi") :
        \/ CallStores("calculate_rsi", args)
        \/ CallRaises("calculate_rsi", args)

CalculateMacd ==
    \E args \in ArgChoices("calculate_macd") :
        CallStores("calculate_macd", args)

CalculateBollingerBands ==
    \E args \in ArgChoices("calculate_bollinger_bands") :
        CallStores("calculate_bollinger_bands", args)

\* get_indicators(): returns self.indicators itself
GetIndicators ==
    /\ ta_snapshot = None
    /\ ta_snapshot' = Some(ta_indicators)
    /\ UNCHANGED <<ta_prices, ta_indicators, ta_last, ta_history, ta_ncalls,
                   saVars, grVars, orVars>>

NextTA ==
    \/ CalculateMovingAverage
    \/ CalculateRsi
    \/ CalculateMacd
    \/ CalculateBollingerBands
    \/ GetIndicators

SpecTA == InitTA /\ [][NextTA]_vars

(***************************************************************************)
(* Claims about TechnicalAnalysis, checked under SpecTA.                   *)
(***************************************************************************)
\* the entry each method writes
KeyOf(method) ==
    CASE method = "calculate_moving_average" -> "sma"
      [] method = "calculate_rsi" -> "rsi"
      [] method = "calculate_macd" -> "macd"
      [] method = "calculate_bollinger_bands" -> "bollinger_bands"
      [] OTHER -> "none"

\* the arrays of an entry
ArraysOf(key, entry) ==
    CASE key = "macd" -> {entry.macd, entry.macdsignal, entry.macdhist}
      [] key = "bollinger_bands" ->
            {entry.upperband, entry.middleband, entry.lowerband}
      [] OTHER -> {entry}

\* the warm-up of each indicator, from its definition: a mean of `period`
\* trailing values, `period` trailing changes, the slow EMA seeded by its first
\* span followed by the signal EMA of the oscillator, the bands of the mean
WarmUp(method, args) ==
    CASE method = "calculate_moving_average" -> args[1] - 1
      [] method = "calculate_rsi" -> args[1]
      [] method = "calculate_macd" -> (Max(args[1], args[2]) - 1) + (args[3] - 1)
      [] method = "calculate_bollinger_bands" -> args[1] - 1

\* C9: whatever the length of the price series (shorter than the warm-up
\* included), an indicator call raises nothing and stores arrays of exactly the
\* input length whose positions before the warm-up boundary are undefined (all
\* of them when the warm-up exceeds the length) and the later ones defined; the
\* only exception is TA-Lib's rejection of a period below its range.
C9_ArraysAlignedWithWarmUp ==
    /\ ta_last.raised => TalibBadParam(ta_last.method, ta_last.args)
    /\ \A method \in DOMAIN ta_history :
          /\ KeyOf(method) \in DOMAIN ta_indicators
          /\ \A a \in ArraysOf(KeyOf(method), ta_indicators[KeyOf(method)]) :
                /\ Len(a) = Len(ta_prices)
                /\ \A k \in 1..Len(a) :
                      a[k].nan <=> (k <= WarmUp(method, ta_history[method]))
                /\ WarmUp(method, ta_history[method]) >= Len(ta_prices) =>
                      \A k \in 1..Len(ta_prices) : a[k] = NaN

\* a two-point series after the default oscillator and the default moving
\* average: both entries are all-undefined arrays of length two
C9_Witness ==
    /\ Len(ta_prices) = 2
    /\ DOMAIN ta_history = {"calculate_macd", "calculate_moving_average"}
    /\ ta_history["calculate_macd"] = <<12, 26, 9>>
    /\ ta_history["calculate_moving_average"] = <<20>>
    /\ ~ta_last.raised
    /\ ta_indicators["macd"].macdhist = <<NaN, NaN>>
    /\ ta_indicators["sma"] = <<NaN, NaN>>

\* what a method called with args leaves in its entry
ExpectedEntry(method, args) ==
    CASE method = "calculate_moving_average" -> SMA(ta_prices, args[1])
      [] method = "calculate_rsi" -> RSI(ta_prices, args[1])
      [] method = "calculate_macd" ->
            LET out == MACD(ta_prices, args[1], args[2], args[3])
            IN  [macd |-> out[1], macdsignal |-> out[2], macdhist |-> out[3]]
      [] method = "calculate_bollinger_bands" ->
            LET out == BBANDS(ta_prices, args[1], args[2], args[3], args[4])
            IN  [upperband |-> out[1], middleband |-> out[2], lowerband |-> out[3]]

\* one entry per indicator invoked, holding the result of its latest call; the
\* snapshot accessor returns these entries
SnapshotIsLatestResults ==
    /\ DOMAIN ta_indicators = {KeyOf(method) : method \in DOMAIN ta_history}
    /\ \A method \in DOMAIN ta_history :
          ta_indicators[KeyOf(method)] = ExpectedEntry(method, ta_history[method])
    /\ ta_snapshot # None => ValueOf(ta_snapshot) = ta_indicators

\* a call keeps the prices and every other indicator's entry, and a call
\* repeated with the same arguments keeps the whole snapshot
CallTouchesOnlyItsEntry ==
    /\ ta_prices' = ta_prices
    /\ \A key \in DOMAIN ta_indicators :
          /\ key \in DOMAIN ta_indicators'
          /\ key # KeyOf(ta_last'.method) => ta_indicators'[key] = ta_indicators[key]
    /\ DOMAIN ta_indicators' \subseteq DOMAIN ta_indicators \cup {KeyOf(ta_last'.method)}
    /\ ( /\ ta_ncalls' = ta_ncalls + 1
         /\ ta_last'.method \in DOMAIN ta_history
         /\ ta_history[ta_last'.method] = ta_last'.args )
       => ta_indicators' = ta_indicators

\* C10: after any sequence of indicator calls the snapshot holds exactly one
\* entry per distinct indicator invoked, equal to the result of the latest call
\* to it; a call never changes another indicator's entry or the prices, and a
\* call repeated with the same parameters leaves the snapshot unchanged.
C10_AccumulatorOverwritesPerIndicator ==
    []SnapshotIsLatestResults /\ [][CallTouchesOnlyItsEntry]_vars

\* the moving average was overwritten by a call with period 3 while the RSI
\* entry of an earlier call is still there
C10_Witness ==
    /\ ta_ncalls = 3
    /\ ta_last = [method |-> "calculate_moving_average", args |-> <<3>>,
                  raised |-> FALSE]
    /\ DOMAIN ta_indicators = {"sma", "rsi"}
    /\ ta_history["calculate_rsi"] = <<2>>
    /\ Len(ta_prices) = MaxTaLen
    /\ ~ta_indicators["sma"][3].nan
    /\ ~ta_indicators["rsi"][3].nan
    /\ ta_snapshot = Some(ta_indicators)

(***************************************************************************)
(* Spec: one request to analyze_stocks, from its validation to its         *)
(* response, one loop iteration per step.                                  *)
(***************************************************************************)
\* fetch_stock_data(symbol): the data source's answer for the symbol; a ticker
\* it does not know has an empty history
Fetch(e, symbol) ==
    IF symbol \in {"A", "AAPL"} THEN e.A
    ELSE IF symbol \in {"B", "MSFT"} THEN e.B
    ELSE IF \E name \in {<<"s", "p", "5", "0", "0">>, <<"d", "o", "w">>,
                         <<"n", "a", "s", "d", "a", "q", "1", "0", "0">>} :
               \E k \in 1..Len(ValueOf(fetch_stock_set(name))) :
                   ValueOf(fetch_stock_set(name))[k] = symbol
    THEN e.listed
    ELSE FetchReturns(0)

\* except ...: continue -- the loop goes on with the next symbol
ExceptBreak(i, n) == n + 1

ExceptContinue(i, n) == i + 1

\* the loop body had the graph pipeline used the adjusted window as well
ProcessOneAdjustedWindow(symbol, req, e, res, imgs) ==
    LET f           == Fetch(e, symbol)
        prices      == PriceSeq(f.n)
        selected    == SelectPrices(prices, req.section_start, req.section_end)
        spectrogram == calculate_mel_spectrogram(
                           selected,
                           AdjustedNFft(N_FFT, req.freq_resolution_multiplier),
                           None)
        features    == extract_mfccs(spectrogram, selected)
        normalized  == NormalizedFeatures(e.signal, spectrogram.out.frames)
        g           == create_network(normalized, DefaultThreshold)
        indicators  == AllIndicators(selected)
        imgs3       == imgs \cup {ImageName(symbol, "time_series"),
                                  ImageName(symbol, "spectrogram"),
                                  ImageName(symbol, "mfccs")}
        tf          == calculate_time_frequency(selected, N_FFT, None,
                                                req.freq_resolution_multiplier)
    IN  IF f.raised
        THEN [outcome |-> "Exception", results |-> res, images |-> imgs]
        ELSE IF Len(prices) = 0
        THEN [outcome |-> "no data", results |-> res, images |-> imgs]
        ELSE IF Len(selected) < 2
        THEN [outcome |-> "not enough data", results |-> res, images |-> imgs]
        ELSE IF spectrogram.out.raised
        THEN [outcome |-> "ValueError", results |-> res, images |-> imgs]
        ELSE IF tf.out.raised
        THEN [outcome |-> "ValueError", results |-> res, images |-> imgs3]
        ELSE [outcome |-> "ok",
              results |-> Put(res, symbol,
                              ResultBundle(symbol, g, selected, features,
                                           indicators, req)),
              images |-> imgs3 \cup
                  {TimeFrequencyImageName(symbol, req.freq_resolution_multiplier)}]

\* one pass of the loop body for `symbol`: how it ends, and the results and
\* images after it
ProcessOne(symbol, req, e, res, imgs) ==
    LET f           == Fetch(e, symbol)
        prices      == PriceSeq(f.n)
        selected    == SelectPrices(prices, req.section_start, req.section_end)
        spectrogram == calculate_mel_spectrogram(selected, N_FFT, None)
        features    == extract_mfccs(spectrogram, selected)
        normalized  == NormalizedFeatures(e.signal, spectrogram.out.frames)
        g           == create_network(normalized, DefaultThreshold)
        indicators  == AllIndicators(selected)
        imgs3       == imgs \cup {ImageName(symbol, "time_series"),
                                  ImageName(symbol, "spectrogram"),
                                  ImageName(symbol, "mfccs")}
        tf          == calculate_time_frequency(selected, N_FFT, None,
                                                req.freq_resolution_multiplier)
    IN  IF f.raised
        THEN [outcome |-> "Exception", results |-> res, images |-> imgs]
        ELSE IF Len(prices) = 0
        THEN [outcome |-> "no data", results |-> res, images |-> imgs]
        ELSE IF Len(selected) < 2
        THEN [outcome |-> "not enough data", results |-> res, images |-> imgs]
        ELSE IF spectrogram.out.raised
        THEN [outcome |-> "ValueError", results |-> res, images |-> imgs]
        ELSE IF tf.out.raised
        THEN [outcome |-> "ValueError", results |-> res, images |-> imgs3]
        ELSE [outcome |-> "ok",
              results |-> Put(res, symbol,
                              ResultBundle(symbol, g, selected, features,
                                           indicators, req)),
              images |-> imgs3 \cup
                  {TimeFrequencyImageName(symbol, req.freq_resolution_multiplier)}]

\* if not results: raise HTTPException(400)
BatchFailsIfAnyMissing(res, symbols) ==
    \E k \in 1..Len(symbols) : symbols[k] \notin DOMAIN res

BatchFails(res, symbols) == res = EmptyDict

BadRequest(detail) == [status |-> 400, detail |-> detail, body |-> EmptyDict]
ServerError(detail) == [status |-> 500, detail |-> detail, body |-> EmptyDict]
Ok(body) == [status |-> 200, detail |-> "", body |-> body]

\* the characters of the symbols parameter, and the parameters tried
SymbolChars == {"a", "B", ",", " "}
SymbolStrings == UNION {[1..n -> SymbolChars] : n \in 0..MaxSymbolsLen}

SetNames ==
    {<<>>, <<"d", "o", "w">>, <<"D", "O", "W">>, <<"s", "p", "5", "0", "0">>,
     <<"n", "a", "s", "d", "a", "q", "1", "0", "0">>,
     <<"f", "t", "s", "e">>, <<" ", "d", "o", "w">>}

SeriesLengths == {0, 1, 3, N_FFT - 6, N_FFT, N_FFT + LongExtra}
FetchOutcomes == {FetchRaises} \cup {FetchReturns(n) : n \in SeriesLengths}
Signals == {"flat", "alike", "lonely"}

\* requests that exercise the validation, on the default section
ValidationRequests ==
    [symbols : {None} \cup {Some(cs) : cs \in SymbolStrings},
     stock_set : {None, Some(<<>>)},
     freq_resolution_multiplier : {MultDen},
     section_start : {0}, section_end : {None}]
    \cup
    [symbols : {None, Some(<<"a">>)},
     stock_set : {Some(name) : name \in SetNames \ {<<>>}},
     freq_resolution_multiplier : {MultDen},
     section_start : {0}, section_end : {None}]

ValidationEnvs ==
    [A : {FetchReturns(N_FFT)}, B : {FetchRaises},
     listed : {FetchRaises, FetchReturns(N_FFT)}, signal : {"lonely"}]

\* requests for one or two symbols, over the sections and the multipliers
ProcessingRequests ==
    [symbols : {Some(<<"a">>), Some(<<"a", ",", "B">>)},
     stock_set : {None},
     freq_resolution_multiplier : {MultDen, 2 * MultDen},
     section_start : 0..MaxStart,
     section_end : {None} \cup {Some(e) : e \in {1, 3, N_FFT}}]

\* the data source for them: every outcome for the first symbol, a failure, no
\* data, a short and a full series for the second
ProcessingEnvs ==
    [A : FetchOutcomes,
     B : {FetchRaises, FetchReturns(0), FetchReturns(3), FetchReturns(N_FFT)},
     listed : {FetchRaises}, signal : Signals]

Init ==
    /\ \/ request \in ValidationRequests /\ env \in ValidationEnvs
       \/ /\ request \in ProcessingRequests
          /\ env \in ProcessingEnvs
          \* a request for one symbol never asks for the second
          /\ Len(ParseSymbols(ValueOf(request.symbols))) = 1 => env.B = FetchRaises
    /\ pc = "validate"
    /\ symbols_list = <<>>
    /\ idx = 0
    /\ results = EmptyDict
    /\ response = None
    /\ images = {}
    /\ fetched = <<>>
    /\ outcomes = <<>>
    /\ IdleWindow
    /\ IdleGraph
    /\ IdleTA

Respond(r) ==
    /\ response' = Some(r)
    /\ pc' = "done"
    /\ UNCHANGED <<request, env, symbols_list, idx, results, images, fetched,
                   outcomes, saVars, grVars, taVars>>

\* if symbols is None and stock_set is None: raise HTTPException(400)
RejectNoSelector ==
    /\ pc = "validate"
    /\ request.symbols = None
    /\ request.stock_set = None
    /\ Respond(BadRequest("Either symbols or stock_set must be provided"))

\* fetch_stock_set raised ValueError: raise HTTPException(400)
RejectUnknownSet ==
    /\ pc = "validate"
    /\ request.stock_set \notin {None, Some(<<>>)}
    /\ fetch_stock_set(ValueOf(request.stock_set)) = None
    /\ Respond(BadRequest("Unknown stock set"))

\* stock_set is the empty string and symbols is None: symbols.split raises
\* AttributeError, which nothing catches
CrashOnMissingSymbols ==
    /\ pc = "validate"
    /\ request.stock_set = Some(<<>>)
    /\ request.symbols = None
    /\ Respond(ServerError("AttributeError"))

\* the symbols of the request, once the selectors are known to be usable
RequestedSymbols ==
    IF request.stock_set \notin {None, Some(<<>>)}
    THEN ValueOf(fetch_stock_set(ValueOf(request.stock_set)))
    ELSE ParseSymbols(ValueOf(request.symbols))

Usable ==
    /\ pc = "validate"
    /\ IF request.stock_set \notin {None, Some(<<>>)}
       THEN fetch_stock_set(ValueOf(request.stock_set)) # None
       ELSE request.symbols # None

\* if not symbols_list: raise HTTPException(400)
RejectNoSymbols ==
    /\ Usable
    /\ RequestedSymbols = <<>>
    /\ Respond(BadRequest("No valid symbols provided."))

\* results = {} and the loop is entered
StartLoop ==
    /\ Usable
    /\ RequestedSymbols # <<>>
    /\ symbols_list' = RequestedSymbols
    /\ idx' = 1
    /\ results' = EmptyDict
    /\ pc' = "loop"
    /\ UNCHANGED <<request, env, response, images, fetched, outcomes,
                   saVars, grVars, taVars>>

\* one iteration of `for symbol in symbols_list`
ProcessSymbol ==
    /\ pc = "loop"
    /\ idx <= Len(symbols_list)
    /\ LET out == ProcessOne(symbols_list[idx], request, env, results, images)
       IN  /\ results' = out.results
           /\ images' = out.images
           /\ outcomes' = Append(outcomes, out.outcome)
           /\ idx' = IF out.outcome \in {"Exception", "ValueError"}
                     THEN ExceptContinue(idx, Len(symbols_list))
                     ELSE idx + 1
    /\ fetched' = Append(fetched, symbols_list[idx])
    /\ UNCHANGED <<request, env, pc, symbols_list, response, saVars, grVars, taVars>>

\* after the loop: raise HTTPException(400) if not results, else return results
Finish ==
    /\ pc = "loop"
    /\ idx > Len(symbols_list)
    /\ Respond(IF BatchFails(results, symbols_list)
               THEN BadRequest("No valid data processed.")
               ELSE Ok(results))

Next ==
    \/ RejectNoSelector
    \/ RejectUnknownSet
    \/ CrashOnMissingSymbols
    \/ RejectNoSymbols
    \/ StartLoop
    \/ ProcessSymbol
    \/ Finish

Spec == Init /\ [][Next]_vars

(***************************************************************************)
(* Claims about analyze_stocks, checked under Spec.                        *)
(***************************************************************************)
Done == pc = "done"
Answer == ValueOf(response)
\* the loop was entered: the request passed the validation
LoopEntered == symbols_list # <<>>
Requested == {symbols_list[k] : k \in 1..Len(symbols_list)}

\* the fetch and every processing step of `symbol` succeed: the data source
\* answers with data, at least two points are selected, and neither transform
\* rejects them
PipelineSucceeds(symbol) ==
    LET f        == Fetch(env, symbol)
        selected == SelectPrices(PriceSeq(f.n), request.section_start,
                                 request.section_end)
    IN  /\ ~f.raised
        /\ f.n > 0
        /\ Len(selected) >= 2
        /\ ~calculate_mel_spectrogram(selected, N_FFT, None).out.raised
        /\ ~calculate_time_frequency(selected, N_FFT, None,
                                     request.freq_resolution_multiplier).out.raised

\* C3: a failing symbol never stops the loop (every requested symbol is
\* attempted, in order), no per-symbol exception reaches the caller, and when a
\* symbol succeeds the returned aggregate holds exactly the symbols whose fetch
\* and processing succeeded.
C3_FailuresAreIsolated ==
    /\ pc = "loop" =>
          /\ response = None
          /\ fetched = SubSeq(symbols_list, 1, idx - 1)
          /\ DOMAIN results =
                {s \in {fetched[k] : k \in 1..Len(fetched)} : PipelineSucceeds(s)}
    /\ (Done /\ LoopEntered) =>
          /\ fetched = symbols_list
          /\ Len(outcomes) = Len(symbols_list)
          /\ Answer.status \in {200, 400}
          /\ (\E s \in Requested : PipelineSucceeds(s)) =>
                /\ Answer.status = 200
                /\ DOMAIN Answer.body = {s \in Requested : PipelineSucceeds(s)}

\* two symbols, the data source fails for the first: the answer holds the second
C3_Witness ==
    /\ Done
    /\ symbols_list = <<"A", "B">>
    /\ outcomes = <<"Exception", "ok">>
    /\ Answer.status = 200
    /\ DOMAIN Answer.body = {"B"}

\* the elements of a series of n points at the indices lo <= i < hi
SubRange(n, lo, hi) ==
    LET first == Min(lo, n)
        last  == Max(first, Min(hi, n))
    IN  [k \in 1..(last - first) |-> first + k - 1]

\* C6 as stated: the prices analysed and returned for a symbol are exactly the
\* elements of the fetched series at the indices section_start <= i < end, end
\* defaulting to the series length, and the echoed bounds are the request's.
C6_PricesAreTheSection ==
    \A s \in DOMAIN results :
        LET n  == Fetch(env, s).n
            hi == IF request.section_end = None THEN n
                  ELSE ValueOf(request.section_end)
        IN  /\ results[s].prices = SubRange(n, request.section_start, hi)
            /\ results[s].section_start = request.section_start
            /\ results[s].section_end = request.section_end

\* C7: once the symbols were processed, the batch fails with a bad request iff
\* no symbol produced a result (each one failed, had no data or had fewer than
\* two selected points); otherwise the non-empty aggregate is returned.
C7_BatchFailsIffNoResult ==
    (Done /\ LoopEntered) =>
        /\ Len(outcomes) = Len(symbols_list)
        /\ Answer.status = 400 <=> (\A s \in Requested : ~PipelineSucceeds(s))
        /\ Answer.status = 400 <=> (\A k \in 1..Len(outcomes) : outcomes[k] # "ok")
        /\ Answer.status = 400 => Answer = BadRequest("No valid data processed.")
        /\ Answer.status # 400 =>
              /\ Answer = Ok(results)
              /\ Answer.body # EmptyDict

\* two symbols, one with too few selected points and one the transform rejects
C7_Witness ==
    /\ Done
    /\ Len(symbols_list) = 2
    /\ outcomes = <<"not enough data", "ValueError">>
    /\ Answer = BadRequest("No valid data processed.")

\* a symbols parameter that names no symbol: empty, or only blanks and commas
NamesNoSymbol(cs) == \A k \in 1..Len(cs) : cs[k] \in {" ", ","}

\* a universe name fetch_stock_set does not know
UnknownSetName(name) ==
    Spell(Lower(name)) \notin {"sp500", "dow", "nasdaq100"}

\* the request names an unknown universe, or no universe and no symbol
InvalidRequest ==
    IF request.stock_set \notin {None, Some(<<>>)}
    THEN UnknownSetName(ValueOf(request.stock_set))
    ELSE \/ request.symbols = None
         \/ NamesNoSymbol(ValueOf(request.symbols))

\* C8 as stated: a request with an unknown universe name or with an empty or
\* invalid symbol list is answered with a bad request before any symbol is
\* fetched, never with an unhandled error.
C8_InvalidRequestIsBadRequest ==
    InvalidRequest =>
        /\ fetched = <<>>
        /\ Done => Answer.status = 400

\* the loop body for `symbol` on the same request with the multiplier m
WithMultiplier(symbol, m) ==
    ProcessOne(symbol, [request EXCEPT !.freq_resolution_multiplier = m],
               env, EmptyDict, {})

\* the multipliers compared: 1 and 2
ComparedMultipliers == {MultDen, 2 * MultDen}

\* C11: for the fetched series and the section bounds of the request, the same
\* request with any other multiplier either drops the symbol (a transform
\* rejects the series) or reports for it the same nodes, links, feature
\* matrix, prices, indicators and section bounds: the two bundles differ in
\* the time-frequency image alone.
C11_MultiplierReachesOnlyTimeFrequency ==
    Done =>
        \A s \in DOMAIN results :
            \A m \in ComparedMultipliers \ {request.freq_resolution_multiplier} :
                LET again == WithMultiplier(s, m)
                IN  /\ again.outcome \in {"ok", "ValueError"}
                    /\ again.outcome = "ok" =>
                          /\ again.results[s].time_frequency_image #
                                 results[s].time_frequency_image
                          /\ [again.results[s] EXCEPT
                                 !.time_frequency_image =
                                     results[s].time_frequency_image] = results[s]

\* a symbol reported with a non-empty graph under multiplier 1 that multiplier
\* 2 reports as well
C11_Witness ==
    /\ Done
    /\ request.freq_resolution_multiplier = MultDen
    /\ "A" \in DOMAIN results
    /\ results["A"].links # <<>>
    /\ WithMultiplier("A", 2 * MultDen).outcome = "ok"

====
